---- MODULE Spec2Model ----
(***************************************************************************)
(* Model of src/test-fixtures/rust/basic.rs: the Point struct, Point::new, *)
(* Point::distance, main and tests::test_point.                            *)
(*                                                                         *)
(* The fields of Point are f64.  An f64 is modelled by what IEEE 754       *)
(* binary64 says it is: NaN, a signed infinity, or a signed finite value   *)
(* whose magnitude is a sum of powers of two.  A magnitude is the set of   *)
(* the exponents of those powers (the positions of its one bits, negative  *)
(* positions being fractional bits), so 5.0 is {0, 2} and 1.5 is {-1, 0}.  *)
(* Exact arithmetic on magnitudes is binary arithmetic on these sets, and *)
(* every f64 operation is the exact operation followed by rounding to      *)
(* nearest, ties to even, into the binary64 format.                        *)
(***************************************************************************)
EXTENDS Integers, Sequences, FiniteSets, TLC

VARIABLES entry, pc, ax, ay, k, p, rets, out, panicked

vars == <<entry, pc, ax, ay, k, p, rets, out, panicked>>

---------------------------------------------------------------------------
(* The binary64 format of the f64 fields.                                  *)

\* Bits of significand precision of an f64.
Prec == 53
\* Position of the top bit of the largest finite f64 (below 2^1024).
MaxTop == 1023
\* Position of the lowest bit an f64 can hold (the smallest subnormal).
MinBit == -1074

---------------------------------------------------------------------------
(* Exact binary arithmetic on magnitudes (finite sets of bit positions).   *)

Max(S) == CHOOSE m \in S : \A n \in S : n <= m

Min(S) == CHOOSE m \in S : \A n \in S : m <= n

\* S * 2^n
Shift(S, n) == {i + n : i \in S}

XorB(a, b) == (a \ b) \cup (b \ a)

\* a >= b
GeqB(a, b) == a = b \/ Max(XorB(a, b)) \in a

RECURSIVE AddB(_, _)
\* a + b: the sum without carries, plus the carries moved up one place
AddB(a, b) == IF b = {} THEN a ELSE AddB(XorB(a, b), Shift(a \cap b, 1))

RECURSIVE SubB(_, _)
\* a - b for a >= b, one bit of b at a time from the lowest: a bit of a at
\* the same place cancels it, otherwise it borrows from the next bit j of a
\* above it, which leaves the bits i..j-1 set.
SubB(a, b) ==
    IF b = {} THEN a
    ELSE LET i == Min(b)
         IN  IF i \in a THEN SubB(a \ {i}, b \ {i})
             ELSE LET j == Min({n \in a : n > i})
                  IN  SubB((a \ {j}) \cup (i..(j - 1)), b \ {i})

RECURSIVE MulB(_, _)
\* a * b: one shifted copy of a for every bit of b
MulB(a, b) ==
    IF b = {} THEN {}
    ELSE LET i == Max(b) IN AddB(Shift(a, i), MulB(a, b \ {i}))

RECURSIVE SqrtLoop(_, _, _, _)
\* Binary digit-by-digit square root: R holds the root's bits above j and
\* rem is the radicand minus R^2.  Bit j joins the root when
\* (R + 2^j)^2 - R^2 = R * 2^(j+1) + 2^(2j) still fits in rem.
SqrtLoop(rem, R, j, jEnd) ==
    IF j < jEnd THEN [root |-> R, exact |-> (rem = {})]
    ELSE LET t == Shift(R, j + 1) \cup {2 * j}
         IN  IF GeqB(rem, t)
             THEN SqrtLoop(SubB(rem, t), R \cup {j}, j - 1, jEnd)
             ELSE SqrtLoop(rem, R, j - 1, jEnd)

\* The square root of a non-zero magnitude S to Prec + 2 bits, with a
\* sticky bit below them when the root is not exact in those bits.
SqrtB(S) ==
    LET j0 == Max(S) \div 2
        r  == SqrtLoop(S, {}, j0, j0 - Prec - 1)
    IN  IF r.exact THEN r.root ELSE r.root \cup {j0 - Prec - 2}

---------------------------------------------------------------------------
(* f64 values.                                                             *)

NaN == [cls |-> "nan", sign |-> 0, mag |-> {}]

Inf(s) == [cls |-> "inf", sign |-> s, mag |-> {}]

Fin(s, m) == [cls |-> "fin", sign |-> s, mag |-> m]

Zero(s) == Fin(s, {})

\* A binding or argument that holds no value yet.
None == [cls |-> "none", sign |-> 0, mag |-> {}]

IsNaN(a) == a.cls = "nan"

IsInf(a) == a.cls = "inf"

IsFinite(a) == a.cls = "fin"

IsZero(a) == a.cls = "fin" /\ a.mag = {}

\* The magnitudes an f64 holds exactly: at most Prec significant bits,
\* none below MinBit, the top one at most MaxTop.
Representable(S) ==
    S = {} \/ (Min(S) >= MinBit /\ Max(S) <= MaxTop /\ Max(S) - Min(S) < Prec)

\* Round the exact value (-1)^s * S to the nearest f64, ties to even;
\* overflow gives the infinity and underflow the zero of that sign.
RoundF64(s, S) ==
    IF S = {} THEN Zero(s)
    ELSE LET top  == Max(S)
             q    == IF top - (Prec - 1) > MinBit THEN top - (Prec - 1) ELSE MinBit
             kept == {i \in S : i >= q}
             up   == /\ (q - 1) \in S
                     /\ ((\E i \in S : i < q - 1) \/ q \in S)
             r    == IF up THEN AddB(kept, {q}) ELSE kept
         IN  IF r = {} THEN Zero(s)
             ELSE IF Max(r) > MaxTop THEN Inf(s)
             ELSE Fin(s, r)

\* -a
FNeg(a) == IF IsNaN(a) THEN NaN ELSE [a EXCEPT !.sign = 1 - a.sign]

\* a.abs()
FAbs(a) == IF IsNaN(a) THEN NaN ELSE [a EXCEPT !.sign = 0]

\* a * b
FMul(a, b) ==
    LET s == (a.sign + b.sign) % 2
    IN  CASE IsNaN(a) \/ IsNaN(b) -> NaN
          [] IsInf(a) /\ IsZero(b) -> NaN
          [] IsZero(a) /\ IsInf(b) -> NaN
          [] IsInf(a) \/ IsInf(b) -> Inf(s)
          [] OTHER -> RoundF64(s, MulB(a.mag, b.mag))

\* a + b
FAdd(a, b) ==
    CASE IsNaN(a) \/ IsNaN(b) -> NaN
      [] IsInf(a) /\ IsInf(b) -> IF a.sign = b.sign THEN a ELSE NaN
      [] IsInf(a) -> a
      [] IsInf(b) -> b
      [] a.sign = b.sign -> RoundF64(a.sign, AddB(a.mag, b.mag))
      [] a.mag = b.mag -> Zero(0)
      [] GeqB(a.mag, b.mag) -> RoundF64(a.sign, SubB(a.mag, b.mag))
      [] OTHER -> RoundF64(b.sign, SubB(b.mag, a.mag))

\* a square root that rejects every a <= 0, zero included
FSqrt_positive_only(a) ==
    CASE IsNaN(a) -> NaN
      [] IsZero(a) -> NaN
      [] a.sign = 1 -> NaN
      [] IsInf(a) -> a
      [] OTHER -> RoundF64(0, SqrtB(a.mag))

\* a.sqrt()
FSqrt(a) ==
    CASE IsNaN(a) -> NaN
      [] IsZero(a) -> a
      [] a.sign = 1 -> NaN
      [] IsInf(a) -> a
      [] OTHER -> RoundF64(0, SqrtB(a.mag))

\* a == b
FEq(a, b) ==
    /\ ~IsNaN(a)
    /\ ~IsNaN(b)
    /\ (a = b \/ (IsZero(a) /\ IsZero(b)))

\* The magnitude of a small natural number n, as a set of bit positions.
Bits(n) == {i \in 0..30 : (n \div (2 ^ i)) % 2 = 1}

\* The f64 literal (-1)^s * n * 2^e.
Lit(s, n, e) == RoundF64(s, Shift(Bits(n), e))

---------------------------------------------------------------------------
(* Rendering of an f64 by "{}" in println!.                                *)

Digit(d) ==
    CASE d = 0 -> "0" [] d = 1 -> "1" [] d = 2 -> "2" [] d = 3 -> "3"
      [] d = 4 -> "4" [] d = 5 -> "5" [] d = 6 -> "6" [] d = 7 -> "7"
      [] d = 8 -> "8" [] d = 9 -> "9"

RECURSIVE DivTenLoop(_, _, _, _)
\* Long division of the integer magnitude S by ten, from bit i down to bit
\* 0, with r the remainder so far and Q the quotient bits so far.
DivTenLoop(S, i, r, Q) ==
    IF i < 0 THEN [quot |-> Q, rem |-> r]
    ELSE LET r2 == 2 * r + (IF i \in S THEN 1 ELSE 0)
         IN  IF r2 >= 10 THEN DivTenLoop(S, i - 1, r2 - 10, Q \cup {i})
             ELSE DivTenLoop(S, i - 1, r2, Q)

RECURSIVE DecDigits(_)
\* The decimal digits of a non-zero integer magnitude.
DecDigits(S) ==
    IF S = {} THEN ""
    ELSE LET d == DivTenLoop(S, Max(S), 0, {})
         IN  DecDigits(d.quot) \o Digit(d.rem)

\* The integers an f64 holds with every digit significant: no fractional
\* bit and below 2^Prec.
IsSmallInteger(a) ==
    IsFinite(a) /\ a.mag # {} /\ Min(a.mag) >= 0 /\ Max(a.mag) < Prec

\* Debug ("{:?}") of an f64 keeps a fractional part: 5.0 prints as 5.0.
FmtDebug(a) ==
    LET minus == IF a.sign = 1 THEN "-" ELSE ""
    IN  CASE IsNaN(a) -> "NaN"
          [] IsInf(a) -> minus \o "inf"
          [] IsZero(a) -> minus \o "0.0"
          [] IsSmallInteger(a) -> minus \o DecDigits(a.mag) \o ".0"

\* Display of an f64.  NaN, the infinities, the zeros and the integers
\* below 2^Prec are rendered; the program prints no other value.
FmtDisplay(a) ==
    LET minus == IF a.sign = 1 THEN "-" ELSE ""
    IN  CASE IsNaN(a) -> "NaN"
          [] IsInf(a) -> minus \o "inf"
          [] IsZero(a) -> minus \o "0"
          [] IsSmallInteger(a) -> minus \o DecDigits(a.mag)

---------------------------------------------------------------------------
(* Point.                                                                  *)

\* The binding p before the let that initialises it.
NoPoint == [x |-> None, y |-> None]

Point_new_swapped(x, y) == [x |-> y, y |-> x]

Point_new(x, y) == [x |-> x, y |-> y]

\* self.x * self.x + self.y, the second square forgotten
distance_unsquared(self) ==
    FSqrt(FAdd(FMul(self.x, self.x), self.y))

\* self.x.hypot(self.y): an infinite coordinate wins over a NaN
distance_hypot(self) ==
    IF IsInf(self.x) \/ IsInf(self.y) THEN Inf(0)
    ELSE FSqrt(FAdd(FMul(self.x, self.x), FMul(self.y, self.y)))

\* the sum of the squares with its square root forgotten
distance_squared(self) ==
    FAdd(FMul(self.x, self.x), FMul(self.y, self.y))

distance(self) ==
    FSqrt(FAdd(FMul(self.x, self.x), FMul(self.y, self.y)))

---------------------------------------------------------------------------
(* Inputs.                                                                 *)

\* Largest integer significand of an input coordinate.
MaxMant == 4
\* Most calls of distance() on one Point.
MaxCalls == 2

Three == Lit(0, 3, 0)

Four == Lit(0, 4, 0)

Five == Lit(0, 5, 0)

\* Coordinates: NaN, the infinities, the zeros, and (+/-) n * 2^e for small
\* n at exponents where squares are exact (0), where the sum of two squares
\* needs rounding (30), and where squares overflow (600) or underflow (-600).
Inputs ==
    {NaN, Inf(0), Inf(1), Zero(0), Zero(1)}
        \cup {Lit(s, n, e) : s \in {0, 1}, n \in 1..MaxMant, e \in {-600, 0, 30, 600}}

\* Scale factors.
Scalars == {Lit(0, 1, -600), Lit(1, 3, 0), Lit(0, 1, 600)}

---------------------------------------------------------------------------
(* main, tests::test_point, and a caller of Point's two functions.        *)

Init ==
    /\ pc = "start"
    /\ p = NoPoint
    /\ rets = <<>>
    /\ out = <<>>
    /\ panicked = FALSE
    /\ k = None
    /\ \/ entry \in {"main", "test"} /\ ax = None /\ ay = None
       \/ entry = "call" /\ ax \in Inputs /\ ay \in Inputs

\* let p = Point::new(3.0, 4.0);
MainNew ==
    /\ entry = "main" /\ pc = "start"
    /\ ax' = Three /\ ay' = Four
    /\ p' = Point_new(Three, Four)
    /\ pc' = "constructed"
    /\ UNCHANGED <<entry, k, rets, out, panicked>>

\* p.distance(), the argument of println!
MainDistance ==
    /\ entry = "main" /\ pc = "constructed"
    /\ rets' = Append(rets, distance(p))
    /\ pc' = "computed"
    /\ UNCHANGED <<entry, ax, ay, k, p, out, panicked>>

MainPrint_twice ==
    /\ entry = "main" /\ pc = "computed"
    /\ out' = out \o << "Distance: " \o FmtDisplay(rets[Len(rets)]),
                        "Distance: " \o FmtDisplay(rets[Len(rets)]) >>
    /\ pc' = "printed"
    /\ UNCHANGED <<entry, ax, ay, k, p, rets, panicked>>

\* println!("Distance: {}", ...)
MainPrint ==
    /\ entry = "main" /\ pc = "computed"
    /\ out' = Append(out, "Distance: " \o FmtDisplay(rets[Len(rets)]))
    /\ pc' = "printed"
    /\ UNCHANGED <<entry, ax, ay, k, p, rets, panicked>>

\* main returns
MainReturn ==
    /\ entry = "main" /\ pc = "printed"
    /\ pc' = "done"
    /\ UNCHANGED <<entry, ax, ay, k, p, rets, out, panicked>>

\* let p = Point::new(3.0, 4.0);
TestNew ==
    /\ entry = "test" /\ pc = "start"
    /\ ax' = Three /\ ay' = Four
    /\ p' = Point_new(Three, Four)
    /\ pc' = "constructed"
    /\ UNCHANGED <<entry, k, rets, out, panicked>>

\* p.distance(), the left side of assert_eq!
TestDistance ==
    /\ entry = "test" /\ pc = "constructed"
    /\ rets' = Append(rets, distance(p))
    /\ pc' = "computed"
    /\ UNCHANGED <<entry, ax, ay, k, p, out, panicked>>

\* assert_eq!(p.distance(), 5.0) panics unless the two are ==
TestAssert ==
    /\ entry = "test" /\ pc = "computed"
    /\ panicked' = ~FEq(rets[Len(rets)], Five)
    /\ pc' = "done"
    /\ UNCHANGED <<entry, ax, ay, k, p, rets, out>>

\* Point::new(ax, ay), for any two f64 arguments
CallNew ==
    /\ entry = "call" /\ pc = "start"
    /\ p' = Point_new(ax, ay)
    /\ pc' = "constructed"
    /\ UNCHANGED <<entry, ax, ay, k, rets, out, panicked>>

\* a distance() that squares the coordinates in place
CallDistance_inplace ==
    /\ entry = "call" /\ pc = "constructed" /\ Len(rets) < MaxCalls
    /\ rets' = Append(rets, distance(p))
    /\ p' = [x |-> FMul(p.x, p.x), y |-> FMul(p.y, p.y)]
    /\ UNCHANGED <<entry, pc, ax, ay, k, out, panicked>>

\* p.distance(): &self is a shared borrow, so p is only read
CallDistance ==
    /\ entry = "call" /\ pc = "constructed" /\ Len(rets) < MaxCalls
    /\ rets' = Append(rets, distance(p))
    /\ UNCHANGED <<entry, pc, ax, ay, k, p, out, panicked>>

\* the caller's scope ends
CallReturn ==
    /\ entry = "call" /\ pc = "constructed"
    /\ pc' = "done"
    /\ UNCHANGED <<entry, ax, ay, k, p, rets, out, panicked>>

Next ==
    \/ MainNew
    \/ MainDistance
    \/ MainPrint
    \/ MainReturn
    \/ TestNew
    \/ TestDistance
    \/ TestAssert
    \/ CallNew
    \/ CallDistance
    \/ CallReturn

Spec == Init /\ [][Next]_vars

\* main moving on to its next statement.
MainAdvance ==
    /\ entry = "main" /\ pc # "done"
    /\ pc' = CASE pc = "start" -> "constructed"
               [] pc = "constructed" -> "computed"
               [] pc = "computed" -> "printed"
               [] pc = "printed" -> "done"

\* main is one thread and none of its statements blocks or loops: while it
\* has a next statement, it goes on to it.
FairSpec == Spec /\ WF_pc(MainAdvance)

---------------------------------------------------------------------------
(* The four sign variants of one point, each constructed and measured.     *)

SymInit ==
    /\ entry = "sym"
    /\ pc = "start"
    /\ ax \in Inputs /\ ay \in Inputs
    /\ p = NoPoint
    /\ rets = <<>>
    /\ out = <<>>
    /\ panicked = FALSE
    /\ k = None

\* Point::new of the next variant: (x, y), (-x, y), (x, -y), (-x, -y)
SymNew ==
    /\ entry = "sym" /\ pc \in {"start", "computed"}
    /\ p' = Point_new(IF Len(rets) \in {1, 3} THEN FNeg(ax) ELSE ax,
                      IF Len(rets) \in {2, 3} THEN FNeg(ay) ELSE ay)
    /\ pc' = "constructed"
    /\ UNCHANGED <<entry, ax, ay, k, rets, out, panicked>>

\* p.distance() of the variant
SymDistance ==
    /\ entry = "sym" /\ pc = "constructed"
    /\ rets' = Append(rets, distance(p))
    /\ pc' = IF Len(rets) = 3 THEN "done" ELSE "computed"
    /\ UNCHANGED <<entry, ax, ay, k, p, out, panicked>>

SymNext == SymNew \/ SymDistance

SymSpec == SymInit /\ [][SymNext]_vars

---------------------------------------------------------------------------
(* A point and its multiple by k, each constructed and measured.           *)

ScaleInit ==
    /\ entry = "scale"
    /\ pc = "start"
    /\ ax \in Inputs /\ ay \in Inputs
    /\ k \in Scalars
    /\ p = NoPoint
    /\ rets = <<>>
    /\ out = <<>>
    /\ panicked = FALSE

\* Point::new(x, y), then Point::new(k * x, k * y)
ScaleNew ==
    /\ entry = "scale" /\ pc \in {"start", "computed"}
    /\ p' = IF rets = <<>> THEN Point_new(ax, ay)
            ELSE Point_new(FMul(k, ax), FMul(k, ay))
    /\ pc' = "constructed"
    /\ UNCHANGED <<entry, ax, ay, k, rets, out, panicked>>

\* p.distance() of each
ScaleDistance ==
    /\ entry = "scale" /\ pc = "constructed"
    /\ rets' = Append(rets, distance(p))
    /\ pc' = IF Len(rets) = 1 THEN "done" ELSE "computed"
    /\ UNCHANGED <<entry, ax, ay, k, p, out, panicked>>

ScaleNext == ScaleNew \/ ScaleDistance

ScaleSpec == ScaleInit /\ [][ScaleNext]_vars

---------------------------------------------------------------------------
(* Reference values for the properties.                                    *)

\* The exact sum of the squares of two finite f64 values.
SumOfSquares(x, y) == AddB(MulB(x.mag, x.mag), MulB(y.mag, y.mag))

\* The Euclidean norm of (x, y) for finite x and y: the square root of the
\* exact sum of squares, rounded once to the nearest f64.
EuclideanNorm(x, y) ==
    IF SumOfSquares(x, y) = {} THEN Zero(0)
    ELSE RoundF64(0, SqrtB(SumOfSquares(x, y)))

\* The place of the last bit of the larger of two finite magnitudes.
UlpBit(S, T) ==
    LET big == IF GeqB(S, T) THEN S ELSE T
    IN  IF big = {} \/ Max(big) - (Prec - 1) < MinBit THEN MinBit
        ELSE Max(big) - (Prec - 1)

\* |a - b| for finite a and b, exactly.
AbsDiff(a, b) ==
    IF a.sign # b.sign THEN AddB(a.mag, b.mag)
    ELSE IF GeqB(a.mag, b.mag) THEN SubB(a.mag, b.mag)
    ELSE SubB(b.mag, a.mag)

\* a and b agree within floating-point tolerance: both NaN, the same
\* infinity, or finite and at most four units in the last place apart.
WithinTol(a, b) ==
    CASE IsNaN(a) \/ IsNaN(b) -> IsNaN(a) /\ IsNaN(b)
      [] IsInf(a) \/ IsInf(b) -> a = b
      [] OTHER -> GeqB({UlpBit(a.mag, b.mag) + 2}, AbsDiff(a, b))

\* The exact square root of S when S is the square of a magnitude.
ExactRoot(S) ==
    IF S = {} THEN {}
    ELSE SqrtLoop(S, {}, Max(S) \div 2, (Max(S) \div 2) - Prec - 1).root

\* (|x|, |y|, c) is a Pythagorean triple whose squares are all f64 values.
IsExactTriple(x, y, c) ==
    /\ x.mag # {} /\ y.mag # {}
    /\ Representable(MulB(x.mag, x.mag))
    /\ Representable(MulB(y.mag, y.mag))
    /\ Representable(MulB(c, c))
    /\ MulB(c, c) = SumOfSquares(x, y)

---------------------------------------------------------------------------
(* Properties.                                                             *)

\* C1: for finite x and y, distance() of Point::new(x, y) is the Euclidean
\* norm of (x, y), within floating-point tolerance.
DistanceIsEuclideanNorm ==
    (entry = "call" /\ rets # <<>> /\ IsFinite(ax) /\ IsFinite(ay))
        => WithinTol(rets[1], EuclideanNorm(ax, ay))

\* C2: Point::new(3.0, 4.0).distance() is exactly 5.0, so test_point's
\* assertion passes; and whenever (|x|, |y|, c) is a Pythagorean triple
\* whose squares are all exactly representable, distance() is exactly c.
PythagoreanExact ==
    /\ (entry = "test" /\ pc = "done") => (rets = <<Five>> /\ ~panicked)
    /\ (entry = "call" /\ Len(rets) = 1 /\ IsFinite(ax) /\ IsFinite(ay))
        => LET c == ExactRoot(SumOfSquares(ax, ay))
           IN  IsExactTriple(ax, ay, c) => rets[1] = Fin(0, c)

PythagoreanExactWitness ==
    /\ entry = "call"
    /\ ax = Lit(1, 3, 30) /\ ay = Lit(0, 4, 30)
    /\ rets # <<>> /\ rets[1] = Lit(0, 5, 30)

\* C3: Point::new accepts every pair of arguments and returns the Point
\* whose x is the first argument and whose y is the second.
NewStoresVerbatim ==
    /\ (entry = "call" /\ pc = "start") => ENABLED CallNew
    /\ (pc = "constructed" /\ rets = <<>>) => (p.x = ax /\ p.y = ay)

NewStoresVerbatimWitness ==
    /\ entry = "call" /\ pc = "constructed" /\ rets = <<>>
    /\ ax = NaN /\ ay = Inf(1)
    /\ p = [x |-> NaN, y |-> Inf(1)]

\* C4: (x, y), (-x, y), (x, -y) and (-x, -y) all have the same distance()
\* (the same f64 value; NaN for all four when one of them is NaN).
DistanceIsEven ==
    entry = "sym" => \A i \in DOMAIN rets : rets[i] = rets[1]

DistanceIsEvenWitness ==
    /\ entry = "sym" /\ pc = "done"
    /\ ax = Lit(0, 3, 30) /\ ay = Lit(1, 3, 0)
    /\ Len(rets) = 4 /\ IsFinite(rets[4])

\* C5: distance() of Point::new(k*x, k*y) is |k| times distance() of
\* Point::new(x, y), within floating-point tolerance.
DistanceIsHomogeneous ==
    (entry = "scale" /\ pc = "done")
        => WithinTol(rets[2], FMul(FAbs(k), rets[1]))

\* C6: Point::new(0, 0).distance() == 0.
OriginIsZero ==
    (entry = "call" /\ rets # <<>> /\ IsZero(ax) /\ IsZero(ay))
        => FEq(rets[1], Zero(0))

OriginIsZeroWitness ==
    /\ entry = "call"
    /\ ax = Zero(0) /\ ay = Zero(0)
    /\ rets # <<>> /\ rets[1] = Zero(0)

\* C7: main constructs the point (3.0, 4.0) and prints "Distance: "
\* followed by the rendering of its distance(), which is "Distance: 5".
MainPrintsFive ==
    entry = "main" =>
        /\ pc \in {"start", "constructed", "computed"} => out = <<>>
        /\ pc # "start" => p = [x |-> Three, y |-> Four]
        /\ pc \in {"printed", "done"} => out = <<"Distance: 5">>

MainPrintsFiveWitness ==
    entry = "main" /\ pc = "done" /\ out = <<"Distance: 5">>

\* C8 as stated: a NaN coordinate gives NaN, and an infinite coordinate
\* gives Infinity.
NonFiniteAsStated ==
    (entry = "call" /\ rets # <<>>) =>
        /\ (IsNaN(ax) \/ IsNaN(ay)) => IsNaN(rets[1])
        /\ (IsInf(ax) \/ IsInf(ay)) => rets[1] = Inf(0)

\* C8: distance() always returns an f64; a NaN coordinate gives NaN, and an
\* infinite coordinate gives +Infinity when the other is not NaN.
NonFinitePropagation ==
    (entry = "call" /\ rets # <<>>) =>
        /\ rets[1].cls \in {"nan", "inf", "fin"}
        /\ (IsNaN(ax) \/ IsNaN(ay)) => IsNaN(rets[1])
        /\ ((IsInf(ax) \/ IsInf(ay)) /\ ~IsNaN(ax) /\ ~IsNaN(ay))
              => rets[1] = Inf(0)

NonFinitePropagationWitness ==
    /\ entry = "call"
    /\ ax = Inf(1) /\ ay = NaN
    /\ rets # <<>> /\ rets[1] = NaN

\* C9: distance() leaves the Point as constructed, and every call on it
\* returns the same value.
PointIsImmutable ==
    (entry = "call" /\ rets # <<>>) =>
        /\ p = [x |-> ax, y |-> ay]
        /\ \A i \in DOMAIN rets : rets[i] = rets[1]

PointIsImmutableWitness ==
    /\ entry = "call" /\ Len(rets) = MaxCalls
    /\ ax = Lit(1, 3, 0) /\ ay = Lit(0, 1, 30)
    /\ p = [x |-> Lit(1, 3, 0), y |-> Lit(0, 1, 30)]

\* One step of main: construct, then compute, then print, then return,
\* each changing only what it is there to change.
MainStep ==
    /\ <<pc, pc'>> \in {<<"start", "constructed">>, <<"constructed", "computed">>,
                        <<"computed", "printed">>, <<"printed", "done">>}
    /\ pc = "start" => (p' # NoPoint /\ rets' = rets /\ out' = out)
    /\ pc = "constructed" => (p' = p /\ Len(rets') = Len(rets) + 1 /\ out' = out)
    /\ pc = "computed" => (p' = p /\ rets' = rets /\ Len(out') = Len(out) + 1)
    /\ pc = "printed" => (p' = p /\ rets' = rets /\ out' = out)
    /\ panicked' = panicked

\* C10: every run of main constructs, then computes, then prints exactly
\* one line, changes nothing else, and terminates.
MainRunsInOrder ==
    /\ [][entry = "main" => MainStep]_vars
    /\ [](entry = "main" => (Len(out) = IF pc \in {"printed", "done"} THEN 1 ELSE 0))
    /\ (entry = "main") ~> (pc = "done" /\ Len(out) = 1)

MainRunsInOrderWitness ==
    entry = "main" /\ pc = "done" /\ Len(out) = 1 /\ Len(rets) = 1

====
